---- MODULE Spec2Model ----
(***************************************************************************)
(* A model of src/app/model/calendar.py: the in-memory Calendar with its   *)
(* Day slot grids, its Event registry and the Reminder lists of its        *)
(* events.                                                                 *)
(*                                                                         *)
(* A date is a day number, a time of day is the number of minutes since    *)
(* midnight (time(hour, minute) orders as hour * 60 + minute), an event id *)
(* is a positive number and None (a free slot) is 0.  The two dicts `days` *)
(* and `events` are sequences of their values in insertion order, which is *)
(* the order Python iterates a dict in.                                    *)
(*                                                                         *)
(* Every method of Calendar is an operator from the state and the          *)
(* arguments to the new days and events, the outcome ("ok" or the error    *)
(* raised) and the value returned; an action applies it and records the    *)
(* call in `last`.  Spec runs the events and slots over every input range; *)
(* SpecRegistry runs the registry, its reminders and find_events over the  *)
(* one-slot range.                                                         *)
(***************************************************************************)
EXTENDS Integers, Sequences, FiniteSets, TLC

\* ---------------------------------------------------------------- bounds
\* Dates are 0..MaxDate; the clock starts at day 1, so day 0 is in the past.
MaxDate == 2
\* generate_unique_id hands out 1..MaxEvents to add_event, which is not called
\* on a date of today or later once they are used up.  (The id update_event
\* generates for the Event it builds is replaced by event_id at once and is
\* not drawn from these.)
MaxEvents == 2
\* Times passed to the calendar: 09:00 + 15 * k minutes, k in 0..MaxSpan.
MaxSpan == 2
\* add_reminder is not called once the events hold MaxReminders reminders in all.
MaxReminders == 2

\* ------------------------------------------------------------- constants
HoursPerDay == 24
MinutesPerHour == 60
SlotMinutes == 15
None == 0

Dates == 0..MaxDate
EventIds == 1..MaxEvents
InputTimes == {9 * MinutesPerHour + SlotMinutes * k : k \in 0..MaxSpan}
\* The (start_at, end_at) pairs passed: every range start_at < end_at over the
\* input times, and the empty range 09:00-09:00 (start_at < end_at is not
\* checked by the code; a range with end_at <= start_at holds no slot).
InputRanges ==
  {r \in InputTimes \X InputTimes :
     r[1] < r[2] \/ (r[1] = r[2] /\ r[1] = 9 * MinutesPerHour)}
\* The one range passed where the registry is exercised: 09:00-09:15.
OneSlotRanges ==
  {r \in InputRanges : r[1] = 9 * MinutesPerHour /\ r[2] = r[1] + SlotMinutes}
Titles == {"standup"}
Descriptions == {"daily"}
EMAIL == "email"
SYSTEM == "system"
ReminderTypes == {EMAIL, SYSTEM}
ReminderTimes == {1}
ReminderIndexes == (0 - 1)..MaxReminders

\* ------------------------------------------------- app.services.util
\* The module app.services.util is imported by calendar.py and is not part of
\* the source at hand.  As the design document describes it (section 6),
\* generate_unique_id returns an id no Event was given before, and each of
\* the four functions below raises the error it is named after; the error
\* ends the call that raised it.
date_lower_than_today_error == "DateInPast"
event_not_found_error == "EventNotFound"
reminder_not_found_error == "ReminderNotFound"
slot_not_available_error == "SlotNotAvailable"

VARIABLES
  days,      \* Calendar.days: the Days, in insertion order
  events,    \* Calendar.events: the Events, in insertion order
  today,     \* datetime.now().date()
  nextId,    \* the next id generate_unique_id returns
  last,      \* the last call: operation, arguments, outcome, returned value
  trip       \* the last successful add_event and the state it started from,
             \* kept until the next call and over a delete_event that follows it

\* The operation of the last call stands before the call itself: two states
\* are told apart by the operation before the returned values, whose shape
\* depends on the operation, are compared.
vars == <<days, events, today, nextId, last.op, last, trip>>

\* ------------------------------------------------------------------- Day
\* Day._init_slots: the keys of Day.slots in insertion order.
SlotKeys ==
  [i \in 1..(HoursPerDay * (MinutesPerHour \div SlotMinutes)) |->
     ((i - 1) \div (MinutesPerHour \div SlotMinutes)) * MinutesPerHour
       + ((i - 1) % (MinutesPerHour \div SlotMinutes)) * SlotMinutes]

SlotTimes == {SlotKeys[i] : i \in DOMAIN SlotKeys}

\* Day.slots is written down by its booked entries only: a function from the
\* slot times that hold an event id to that id.  Every other key of SlotTimes
\* holds None.  The keys never change after _init_slots.
\* self.slots[t], for a key t
SlotValue(slots, t) == IF t \in DOMAIN slots THEN slots[t] ELSE None

\* self.slots[t] = value, for every key t in times
Assign(slots, times, value) ==
  IF value = None
  THEN [t \in DOMAIN slots \ times |-> slots[t]]
  ELSE [t \in DOMAIN slots \cup times |-> IF t \in times THEN value ELSE slots[t]]

\* Day.__init__: every slot is None.
NewDay(date_) ==
  [date_ |-> date_, slots |-> Assign([t \in {} |-> None], SlotTimes, None)]

SetMin(S) == CHOOSE x \in S : \A y \in S : x <= y

\* The keys the loops of add_event and update_event assign: the slot times t
\* with start_at <= t < end_at, for the times passed to the calendar.
SlotsIn ==
  [start_at \in InputTimes, end_at \in InputTimes |->
     {t \in SlotTimes : start_at <= t /\ t < end_at}]

\* The keys whose value is event_id (never None).
HeldBy(slots, event_id) == {t \in DOMAIN slots : slots[t] = event_id}

\* Day.add_event with the test start_at <= slot_time <= end_at.
DayAddEventThroughEnd(slots, event_id, start_at, end_at) ==
  LET range == {t \in SlotTimes : start_at <= t /\ t <= end_at}
      taken == {t \in range : SlotValue(slots, t) # None}
  IN IF taken = {}
     THEN [slots |-> Assign(slots, range, event_id), outcome |-> "ok"]
     ELSE [slots |-> Assign(slots, {t \in range : t < SetMin(taken)}, event_id),
           outcome |-> slot_not_available_error]

\* Day.add_event without the test that the slot is None.
DayAddEventOverwrites(slots, event_id, start_at, end_at) ==
  [slots |-> Assign(slots, SlotsIn[start_at, end_at], event_id), outcome |-> "ok"]

\* Day.add_event testing the whole range before it books any slot.
DayAddEventAtomic(slots, event_id, start_at, end_at) ==
  LET range == SlotsIn[start_at, end_at]
      taken == {t \in range : SlotValue(slots, t) # None}
  IN IF taken = {}
     THEN [slots |-> Assign(slots, range, event_id), outcome |-> "ok"]
     ELSE [slots |-> slots, outcome |-> slot_not_available_error]

\* Day.add_event.  The loop visits the slots in ascending time and raises at
\* the first slot of the range that is not None; the slots of the range
\* before that one were already assigned.
DayAddEvent(slots, event_id, start_at, end_at) ==
  LET range == SlotsIn[start_at, end_at]
      taken == {t \in range : SlotValue(slots, t) # None}
  IN IF taken = {}
     THEN [slots |-> Assign(slots, range, event_id), outcome |-> "ok"]
     ELSE [slots |-> Assign(slots, {t \in range : t < SetMin(taken)}, event_id),
           outcome |-> slot_not_available_error]

\* Day.delete_event: clears the slots of the id, raises if there were none.
DayDeleteEvent(slots, event_id) ==
  LET held == HeldBy(slots, event_id)
  IN [slots |-> Assign(slots, held, None),
      outcome |-> IF held # {} THEN "ok" ELSE event_not_found_error]

\* Day.update_event booking the new range over whatever the slots hold.
DayUpdateEventOverwrites(slots, event_id, start_at, end_at) ==
  [slots |-> Assign(Assign(slots, HeldBy(slots, event_id), None),
                    SlotsIn[start_at, end_at], event_id),
   outcome |-> "ok"]

\* Day.update_event: clears the slots of the id, then books the new range
\* like add_event (a slot is taken when its value is truthy).
DayUpdateEvent(slots, event_id, start_at, end_at) ==
  LET held == HeldBy(slots, event_id)
      cleared == Assign(slots, held, None)
      range == SlotsIn[start_at, end_at]
      taken == {t \in range : SlotValue(cleared, t) # None}
  IN IF taken = {}
     THEN [slots |-> Assign(cleared, range, event_id), outcome |-> "ok"]
     ELSE [slots |-> Assign(cleared, {t \in range : t < SetMin(taken)}, event_id),
           outcome |-> slot_not_available_error]

\* ----------------------------------------------------------------- Event
\* Event(title, description, date_, start_at, end_at) with a given id.
NewEvent(id, title, description, date_, start_at, end_at) ==
  [id |-> id, title |-> title, description |-> description, date_ |-> date_,
   start_at |-> start_at, end_at |-> end_at, reminders |-> <<>>]

\* Event.add_reminder
EventAddReminder(reminders, date_time, type_) ==
  Append(reminders, [date_time |-> date_time, type |-> type_])

\* Event.delete_reminder deleting the last reminder, whatever the index.
DeleteLastReminder(reminders, reminder_index) ==
  IF reminder_index < 0 \/ reminder_index >= Len(reminders)
  THEN [reminders |-> reminders, outcome |-> reminder_not_found_error]
  ELSE [reminders |-> SubSeq(reminders, 1, Len(reminders) - 1), outcome |-> "ok"]

\* Event.delete_reminder without the test reminder_index < 0: Python counts
\* a negative index from the end of the list.
DeleteReminderFromEnd(reminders, reminder_index) ==
  IF reminder_index >= Len(reminders) \/ 0 - reminder_index > Len(reminders)
  THEN [reminders |-> reminders, outcome |-> reminder_not_found_error]
  ELSE LET i == IF reminder_index < 0 THEN Len(reminders) + reminder_index
                ELSE reminder_index
       IN [reminders |-> SubSeq(reminders, 1, i) \o SubSeq(reminders, i + 2, Len(reminders)),
           outcome |-> "ok"]

\* Event.delete_reminder
EventDeleteReminder(reminders, reminder_index) ==
  IF reminder_index < 0 \/ reminder_index >= Len(reminders)
  THEN [reminders |-> reminders, outcome |-> reminder_not_found_error]
  ELSE [reminders |-> SubSeq(reminders, 1, reminder_index)
                        \o SubSeq(reminders, reminder_index + 2, Len(reminders)),
        outcome |-> "ok"]

\* ------------------------------------------------------- dict operations
\* date_ in self.days
HasDay(ds, date_) == \E i \in DOMAIN ds : ds[i].date_ = date_

\* the position of self.days[date_]
DayIndex(ds, date_) == CHOOSE i \in DOMAIN ds : ds[i].date_ = date_

\* event_id in self.events
HasEvent(es, event_id) == \E i \in DOMAIN es : es[i].id = event_id

\* the position of self.events[event_id]
EventIndex(es, event_id) == CHOOSE i \in DOMAIN es : es[i].id = event_id

\* self.events[event_id] = event: a new key goes last, an old key keeps its place
PutEvent(es, event) ==
  IF HasEvent(es, event.id)
  THEN [es EXCEPT ![EventIndex(es, event.id)] = event]
  ELSE Append(es, event)

\* self.events.pop(event_id)
PopEvent(es, event_id) == SelectSeq(es, LAMBDA ev : ev.id # event_id)

\* event_id in day.slots.values()
DayHolds(day, event_id) == HeldBy(day.slots, event_id) # {}

\* -------------------------------------------------------------- Calendar
\* The test of add_event off by a day.
DateBeforeYesterday(date_, now) == date_ < now - 1

\* date_ < datetime.now().date()
DateInPast(date_, now) == date_ < now

\* Calendar.add_event; id is the value generate_unique_id gives the Event.
CalAddEvent(ds, es, now, id, title, description, date_, start_at, end_at) ==
  IF DateInPast(date_, now)
  THEN [days |-> ds, events |-> es, outcome |-> date_lower_than_today_error, ret |-> None]
  ELSE LET ds1 == IF HasDay(ds, date_) THEN ds ELSE Append(ds, NewDay(date_))
           i == DayIndex(ds1, date_)
           event == NewEvent(id, title, description, date_, start_at, end_at)
           booked == DayAddEvent(ds1[i].slots, event.id, start_at, end_at)
           ds2 == [ds1 EXCEPT ![i].slots = booked.slots]
       IN IF booked.outcome # "ok"
          THEN [days |-> ds2, events |-> es, outcome |-> booked.outcome, ret |-> None]
          ELSE [days |-> ds2, events |-> PutEvent(es, event), outcome |-> "ok",
                ret |-> event.id]

\* Calendar.add_reminder
CalAddReminder(ds, es, event_id, date_time, type_) ==
  IF ~HasEvent(es, event_id)
  THEN [days |-> ds, events |-> es, outcome |-> event_not_found_error, ret |-> None]
  ELSE [days |-> ds,
        events |-> [es EXCEPT ![EventIndex(es, event_id)].reminders =
                      EventAddReminder(@, date_time, type_)],
        outcome |-> "ok", ret |-> None]

\* Calendar.find_available_slots with the test `if event` for `if not event`.
FindBookedSlots(ds, es, date_) ==
  [days |-> ds, events |-> es, outcome |-> "ok",
   ret |-> IF HasDay(ds, date_)
           THEN SelectSeq(SlotKeys,
                          LAMBDA t : SlotValue(ds[DayIndex(ds, date_)].slots, t) # None)
           ELSE SlotKeys]

\* Calendar.find_available_slots keeping the Day it builds for a new date.
FindAvailableSlotsKeepsDay(ds, es, date_) ==
  [days |-> IF HasDay(ds, date_) THEN ds ELSE Append(ds, NewDay(date_)),
   events |-> es, outcome |-> "ok",
   ret |-> IF HasDay(ds, date_)
           THEN SelectSeq(SlotKeys,
                          LAMBDA t : SlotValue(ds[DayIndex(ds, date_)].slots, t) = None)
           ELSE SlotKeys]

\* Calendar.find_available_slots
CalFindAvailableSlots(ds, es, date_) ==
  [days |-> ds, events |-> es, outcome |-> "ok",
   ret |-> IF HasDay(ds, date_)
           THEN SelectSeq(SlotKeys,
                          LAMBDA t : SlotValue(ds[DayIndex(ds, date_)].slots, t) = None)
           ELSE SlotKeys]

\* Calendar.delete_event without its loop over the days.
DeleteEventKeepsSlots(ds, es, event_id) ==
  IF ~HasEvent(es, event_id)
  THEN [days |-> ds, events |-> es, outcome |-> event_not_found_error, ret |-> None]
  ELSE [days |-> ds, events |-> PopEvent(es, event_id), outcome |-> "ok", ret |-> None]

\* Calendar.delete_event with the break after the test, not in it: only the
\* first Day is looked at.
DeleteEventFirstDayOnly(ds, es, event_id) ==
  IF ~HasEvent(es, event_id)
  THEN [days |-> ds, events |-> es, outcome |-> event_not_found_error, ret |-> None]
  ELSE IF ds = <<>> \/ ~DayHolds(ds[1], event_id)
  THEN [days |-> ds, events |-> PopEvent(es, event_id), outcome |-> "ok", ret |-> None]
  ELSE [days |-> [ds EXCEPT ![1].slots = DayDeleteEvent(ds[1].slots, event_id).slots],
        events |-> PopEvent(es, event_id), outcome |-> "ok", ret |-> None]

\* Calendar.delete_event: the loop over the days stops at the first Day that
\* holds the id.
CalDeleteEvent(ds, es, event_id) ==
  IF ~HasEvent(es, event_id)
  THEN [days |-> ds, events |-> es, outcome |-> event_not_found_error, ret |-> None]
  ELSE LET holders == {i \in DOMAIN ds : DayHolds(ds[i], event_id)}
       IN IF holders = {}
          THEN [days |-> ds, events |-> PopEvent(es, event_id), outcome |-> "ok",
                ret |-> None]
          ELSE LET i == SetMin(holders)
                   freed == DayDeleteEvent(ds[i].slots, event_id)
               IN [days |-> [ds EXCEPT ![i].slots = freed.slots],
                   events |-> PopEvent(es, event_id),
                   outcome |-> freed.outcome, ret |-> None]

\* The loop that ends Calendar.update_event when the date is unchanged, from
\* the i-th Day on: a Day that holds the id frees it and books the new range.
RECURSIVE RebookDays(_, _, _, _, _)
RebookDays(ds, i, event_id, start_at, end_at) ==
  IF i > Len(ds)
  THEN [days |-> ds, outcome |-> "ok"]
  ELSE IF ~DayHolds(ds[i], event_id)
  THEN RebookDays(ds, i + 1, event_id, start_at, end_at)
  ELSE LET freed == DayDeleteEvent(ds[i].slots, event_id)
           booked == DayUpdateEvent(freed.slots, event_id, start_at, end_at)
           ds1 == [ds EXCEPT ![i].slots = booked.slots]
       IN IF freed.outcome # "ok"
          THEN [days |-> [ds EXCEPT ![i].slots = freed.slots], outcome |-> freed.outcome]
          ELSE IF booked.outcome # "ok"
          THEN [days |-> ds1, outcome |-> booked.outcome]
          ELSE RebookDays(ds1, i + 1, event_id, start_at, end_at)

\* Calendar.update_event, the branch event.date_ != date_, without the call
\* of delete_event: the slots of the old date stay booked.
UpdateToNewDateKeepsOldSlots(ds, es, event_id, title, description, date_, start_at, end_at) ==
  LET event == NewEvent(event_id, title, description, date_, start_at, end_at)
      es1 == PutEvent(PopEvent(es, event_id), event)
      ds1 == IF HasDay(ds, date_) THEN ds ELSE Append(ds, NewDay(date_))
      i == DayIndex(ds1, date_)
      booked == DayAddEvent(ds1[i].slots, event_id, start_at, end_at)
  IN [days |-> [ds1 EXCEPT ![i].slots = booked.slots], events |-> es1,
      outcome |-> booked.outcome, ret |-> None]

\* Calendar.update_event, the branch event.date_ != date_
UpdateToNewDate(ds, es, event_id, title, description, date_, start_at, end_at) ==
  LET gone == CalDeleteEvent(ds, es, event_id)
      event == NewEvent(event_id, title, description, date_, start_at, end_at)
      es1 == PutEvent(gone.events, event)
      ds1 == IF HasDay(gone.days, date_) THEN gone.days
             ELSE Append(gone.days, NewDay(date_))
      i == DayIndex(ds1, date_)
      booked == DayAddEvent(ds1[i].slots, event_id, start_at, end_at)
  IN IF gone.outcome # "ok"
     THEN gone
     ELSE [days |-> [ds1 EXCEPT ![i].slots = booked.slots], events |-> es1,
           outcome |-> booked.outcome, ret |-> None]

\* Calendar.update_event, the branch event.date_ == date_
UpdateSameDate(ds, es, event_id, title, description, date_, start_at, end_at) ==
  LET es1 == [es EXCEPT ![EventIndex(es, event_id)] =
                [@ EXCEPT !.title = title, !.description = description,
                          !.date_ = date_, !.start_at = start_at,
                          !.end_at = end_at]]
      rebooked == RebookDays(ds, 1, event_id, start_at, end_at)
  IN [days |-> rebooked.days, events |-> es1, outcome |-> rebooked.outcome,
      ret |-> None]

\* Calendar.update_event: self.events[event_id] raises KeyError for a
\* missing key, before the test that would call event_not_found_error.
CalUpdateEvent(ds, es, event_id, title, description, date_, start_at, end_at) ==
  IF ~HasEvent(es, event_id)
  THEN [days |-> ds, events |-> es, outcome |-> "KeyError", ret |-> None]
  ELSE IF es[EventIndex(es, event_id)].date_ # date_
  THEN UpdateToNewDate(ds, es, event_id, title, description, date_, start_at, end_at)
  ELSE UpdateSameDate(ds, es, event_id, title, description, date_, start_at, end_at)

\* Calendar.find_events, the loop from the i-th event on; acc is the dict
\* built so far, as a sequence of its items.
RECURSIVE CollectEvents(_, _, _, _, _)
CollectEvents(es, i, start_at, end_at, acc) ==
  IF i > Len(es)
  THEN acc
  ELSE IF ~(start_at <= es[i].date_ /\ es[i].date_ <= end_at)
  THEN CollectEvents(es, i + 1, start_at, end_at, acc)
  ELSE LET known == {k \in DOMAIN acc : acc[k].date_ = es[i].date_}
           acc1 == IF known = {}
                   THEN Append(acc, [date_ |-> es[i].date_, events |-> <<>>])
                   ELSE acc
           k == CHOOSE j \in DOMAIN acc1 : acc1[j].date_ = es[i].date_
       IN CollectEvents(es, i + 1, start_at, end_at,
                        [acc1 EXCEPT ![k].events = Append(@, es[i])])

\* Calendar.find_events taking end_at as an exclusive bound.
FindEventsBeforeEnd(ds, es, start_at, end_at) ==
  [days |-> ds, events |-> es, outcome |-> "ok",
   ret |-> CollectEvents(es, 1, start_at, end_at - 1, <<>>)]

\* Calendar.find_events
CalFindEvents(ds, es, start_at, end_at) ==
  [days |-> ds, events |-> es, outcome |-> "ok",
   ret |-> CollectEvents(es, 1, start_at, end_at, <<>>)]

\* Calendar.delete_reminder
CalDeleteReminder(ds, es, event_id, reminder_index) ==
  IF ~HasEvent(es, event_id)
  THEN [days |-> ds, events |-> es, outcome |-> event_not_found_error, ret |-> None]
  ELSE LET i == EventIndex(es, event_id)
           cut == EventDeleteReminder(es[i].reminders, reminder_index)
       IN [days |-> ds, events |-> [es EXCEPT ![i].reminders = cut.reminders],
           outcome |-> cut.outcome, ret |-> None]

\* Calendar.list_reminders answering an unknown id with no reminders.
ListRemindersOfUnknown(ds, es, event_id) ==
  [days |-> ds, events |-> es, outcome |-> "ok",
   ret |-> IF HasEvent(es, event_id)
           THEN es[EventIndex(es, event_id)].reminders ELSE <<>>]

\* Calendar.list_reminders
CalListReminders(ds, es, event_id) ==
  IF ~HasEvent(es, event_id)
  THEN [days |-> ds, events |-> es, outcome |-> event_not_found_error, ret |-> None]
  ELSE [days |-> ds, events |-> es, outcome |-> "ok",
        ret |-> es[EventIndex(es, event_id)].reminders]

\* --------------------------------------------------------------- the run
NoTrip ==
  [phase |-> "none", id |-> None, date_ |-> 0, start_at |-> 0, end_at |-> 0,
   days |-> <<>>, events |-> <<>>]

NoArgs == [event_id |-> None]

Init ==
  /\ days = <<>>
  /\ events = <<>>
  /\ today = 1
  /\ nextId = 1
  /\ last = [op |-> "init", args |-> NoArgs, outcome |-> "ok", ret |-> None]
  /\ trip = NoTrip

\* What every call does to the state: r is what the call computed.
Finish(op, args, r) ==
  /\ days' = r.days
  /\ events' = r.events
  /\ last' = [op |-> op, args |-> args, outcome |-> r.outcome, ret |-> r.ret]

\* The clock passes midnight.
Tick ==
  /\ today < MaxDate
  /\ today' = today + 1
  /\ last' = [op |-> "tick", args |-> NoArgs, outcome |-> "ok", ret |-> None]
  /\ UNCHANGED <<days, events, nextId, trip>>

AddEventIn(ranges) ==
  \E title \in Titles, description \in Descriptions, date_ \in Dates,
     range \in ranges :
    LET start_at == range[1]
        end_at == range[2]
        r == CalAddEvent(days, events, today, nextId, title, description,
                         date_, start_at, end_at)
    IN /\ DateInPast(date_, today) \/ nextId <= MaxEvents
       /\ Finish("add_event",
                 [event_id |-> None, title |-> title, description |-> description,
                  date_ |-> date_, start_at |-> start_at, end_at |-> end_at], r)
       /\ nextId' = IF DateInPast(date_, today) THEN nextId ELSE nextId + 1
       /\ trip' = IF r.outcome = "ok"
                  THEN [phase |-> "added", id |-> r.ret, date_ |-> date_,
                        start_at |-> start_at, end_at |-> end_at,
                        days |-> days,
                        events |-> events]
                  ELSE NoTrip
       /\ UNCHANGED today

\* The number of reminders the events from the i-th on hold.
RECURSIVE ReminderCount(_, _)
ReminderCount(es, i) ==
  IF i > Len(es) THEN 0 ELSE Len(es[i].reminders) + ReminderCount(es, i + 1)

AddReminder ==
  \E event_id \in EventIds, date_time \in ReminderTimes, type_ \in ReminderTypes :
    /\ HasEvent(events, event_id) => ReminderCount(events, 1) < MaxReminders
    /\ Finish("add_reminder",
              [event_id |-> event_id, date_time |-> date_time, type |-> type_],
              CalAddReminder(days, events, event_id, date_time, type_))
    /\ trip' = NoTrip
    /\ UNCHANGED <<today, nextId>>

FindAvailableSlots ==
  \E date_ \in Dates :
    /\ Finish("find_available_slots", [event_id |-> None, date_ |-> date_],
              CalFindAvailableSlots(days, events, date_))
    /\ trip' = NoTrip
    /\ UNCHANGED <<today, nextId>>

UpdateEventIn(ranges) ==
  \E event_id \in EventIds, title \in Titles, description \in Descriptions,
     date_ \in Dates, range \in ranges :
    /\ Finish("update_event",
              [event_id |-> event_id, title |-> title, description |-> description,
               date_ |-> date_, start_at |-> range[1], end_at |-> range[2]],
              CalUpdateEvent(days, events, event_id, title, description, date_,
                             range[1], range[2]))
    /\ trip' = NoTrip
    /\ UNCHANGED <<today, nextId>>

DeleteEvent ==
  \E event_id \in EventIds :
    LET r == CalDeleteEvent(days, events, event_id)
    IN /\ Finish("delete_event", [event_id |-> event_id], r)
       /\ trip' = IF trip.phase = "added" /\ trip.id = event_id /\ r.outcome = "ok"
                  THEN [trip EXCEPT !.phase = "deleted"]
                  ELSE NoTrip
       /\ UNCHANGED <<today, nextId>>

FindEvents ==
  \E start_at \in Dates, end_at \in Dates :
    /\ Finish("find_events", [event_id |-> None, start_at |-> start_at, end_at |-> end_at],
              CalFindEvents(days, events, start_at, end_at))
    /\ trip' = NoTrip
    /\ UNCHANGED <<today, nextId>>

DeleteReminder ==
  \E event_id \in EventIds, reminder_index \in ReminderIndexes :
    /\ Finish("delete_reminder",
              [event_id |-> event_id, reminder_index |-> reminder_index],
              CalDeleteReminder(days, events, event_id, reminder_index))
    /\ trip' = NoTrip
    /\ UNCHANGED <<today, nextId>>

ListReminders ==
  \E event_id \in EventIds :
    /\ Finish("list_reminders", [event_id |-> event_id],
              CalListReminders(days, events, event_id))
    /\ trip' = NoTrip
    /\ UNCHANGED <<today, nextId>>

AddEvent == AddEventIn(InputRanges)

UpdateEvent == UpdateEventIn(InputRanges)

AddOneSlotEvent == AddEventIn(OneSlotRanges)

UpdateOneSlotEvent == UpdateEventIn(OneSlotRanges)

\* The calendar's events and slots, over every input range.
Next ==
  \/ Tick
  \/ AddEvent
  \/ FindAvailableSlots
  \/ UpdateEvent
  \/ DeleteEvent

Spec == Init /\ [][Next]_vars

\* The registry of events and their reminders, over the one-slot range.
NextRegistry ==
  \/ AddOneSlotEvent
  \/ UpdateOneSlotEvent
  \/ DeleteEvent
  \/ AddReminder
  \/ DeleteReminder
  \/ ListReminders
  \/ FindEvents

SpecRegistry == Init /\ [][NextRegistry]_vars

\* One Day, called directly. The Day is the first of days; the registry
\* stays empty, a Day knows ids only.
InitDay ==
  /\ days = <<NewDay(1)>>
  /\ events = <<>>
  /\ today = 1
  /\ nextId = 1
  /\ last = [op |-> "init", args |-> NoArgs, outcome |-> "ok", ret |-> None]
  /\ trip = NoTrip

\* What every call of a method of the Day does to the state: r is what the
\* method computed.
FinishDay(op, args, r) ==
  /\ days' = [days EXCEPT ![1].slots = r.slots]
  /\ last' = [op |-> op, args |-> args, outcome |-> r.outcome, ret |-> None]
  /\ UNCHANGED <<events, today, nextId, trip>>

CallDayAddEvent ==
  \E event_id \in EventIds, range \in InputRanges :
    FinishDay("Day.add_event",
              [event_id |-> event_id, start_at |-> range[1], end_at |-> range[2]],
              DayAddEvent(days[1].slots, event_id, range[1], range[2]))

CallDayDeleteEvent ==
  \E event_id \in EventIds :
    FinishDay("Day.delete_event", [event_id |-> event_id],
              DayDeleteEvent(days[1].slots, event_id))

CallDayUpdateEvent ==
  \E event_id \in EventIds, range \in InputRanges :
    FinishDay("Day.update_event",
              [event_id |-> event_id, start_at |-> range[1], end_at |-> range[2]],
              DayUpdateEvent(days[1].slots, event_id, range[1], range[2]))

NextDay ==
  \/ CallDayAddEvent
  \/ CallDayDeleteEvent
  \/ CallDayUpdateEvent

SpecDay == InitDay /\ [][NextDay]_vars

\* ---------------------------------------------------- reading the state
\* The value of slot t of the Day of date_; None when the date has no Day.
SlotOn(ds, date_, t) ==
  IF HasDay(ds, date_) THEN SlotValue(ds[DayIndex(ds, date_)].slots, t) ELSE None

\* The slot times 00:00, 00:15, ..., 23:45.
QuarterHours == {15 * k : k \in 0..95}

\* The quarter hours t with start_at <= t < end_at.
Covered(start_at, end_at) == {t \in QuarterHours : start_at <= t /\ t < end_at}

\* The event registered under event_id.
EventOf(es, event_id) == es[EventIndex(es, event_id)]

\* The registered event ev holds every slot of its range on its date.
HoldsItsSlots(ds, ev) ==
  \A t \in Covered(ev.start_at, ev.end_at) : SlotOn(ds, ev.date_, t) = ev.id

\* The elements of a sequence.
Elements(seq) == {seq[i] : i \in DOMAIN seq}

\* The sequence is strictly ascending.
Ascending(seq) == \A i, j \in DOMAIN seq : i < j => seq[i] < seq[j]

\* -------------------------------------------------------------------- C1
\* C1: whenever add_event returns an id, every slot t of the Day of the date
\* with start <= t < end maps to that id, the event is registered under the
\* id, and every other slot of that Day and every slot of every other Day
\* has the value it had before the call.
C1_AddEventBooksItsRange ==
  [][(last'.op = "add_event" /\ last'.outcome = "ok") =>
       LET a == last'.args
           id == last'.ret
       IN /\ id # None
          /\ HasDay(days', a.date_)
          /\ \A t \in Covered(a.start_at, a.end_at) : SlotOn(days', a.date_, t) = id
          /\ HasEvent(events', id)
          /\ EventOf(events', id) =
               NewEvent(id, a.title, a.description, a.date_, a.start_at, a.end_at)
          /\ \A t \in QuarterHours \ Covered(a.start_at, a.end_at) :
               SlotOn(days', a.date_, t) = SlotOn(days, a.date_, t)
          /\ \A d \in Dates \ {a.date_} :
               /\ HasDay(days', d) <=> HasDay(days, d)
               /\ \A t \in QuarterHours : SlotOn(days', d, t) = SlotOn(days, d, t)]_vars

\* An add_event returned an id for a range of one slot on a Day where another
\* id holds a slot, in a calendar with a second Day.
C1_Witness ==
  /\ last.op = "add_event"
  /\ last.outcome = "ok"
  /\ Cardinality(Covered(last.args.start_at, last.args.end_at)) = 1
  /\ \E t \in QuarterHours : SlotOn(days, last.args.date_, t) \notin {None, last.ret}
  /\ Len(days) > 1

\* -------------------------------------------------------------------- C2
\* The case of C2: the call is add_event on a date where a registered event
\* of that date holds every slot of its range start < end, and the range
\* passed, start < end, shares a slot with it.
C2_Overlaps(ds, es, a) ==
  /\ a.start_at < a.end_at
  /\ \E i \in DOMAIN es :
       /\ es[i].date_ = a.date_
       /\ es[i].start_at < es[i].end_at
       /\ HoldsItsSlots(ds, es[i])
       /\ Covered(es[i].start_at, es[i].end_at) \cap Covered(a.start_at, a.end_at) # {}

\* C2 as claimed: after an add_event that succeeded on a date with a range
\* start < end, whose event holds its slots, the next add_event on that date
\* with a range start < end that shares a slot with it fails with
\* SlotNotAvailable and registers no event.
C2_AsClaimed ==
  [][(/\ trip.phase = "added"
      /\ trip.start_at < trip.end_at
      /\ HoldsItsSlots(days, EventOf(events, trip.id))
      /\ last'.op = "add_event"
      /\ last'.args.date_ = trip.date_
      /\ last'.args.start_at < last'.args.end_at
      /\ Covered(trip.start_at, trip.end_at)
            \cap Covered(last'.args.start_at, last'.args.end_at) # {}) =>
       /\ last'.outcome = "SlotNotAvailable"
       /\ events' = events]_vars

\* C2 as amended: an add_event whose range overlaps the range of any
\* registered event that holds its slots on the same date fails and registers
\* no event; it fails with SlotNotAvailable when the date is not before the
\* current date at the call, and with DateInPast when it is.
C2_OverlapIsRefused ==
  [][(last'.op = "add_event" /\ C2_Overlaps(days, events, last'.args)) =>
       /\ last'.outcome =
            IF last'.args.date_ < today THEN "DateInPast" ELSE "SlotNotAvailable"
       /\ events' = events]_vars

\* An add_event over two slots failed with SlotNotAvailable on a date where a
\* registered event holds the second of them.
C2_Witness ==
  /\ last.op = "add_event"
  /\ last.outcome = "SlotNotAvailable"
  /\ Cardinality(Covered(last.args.start_at, last.args.end_at)) = 2
  /\ \E i \in DOMAIN events :
       /\ events[i].date_ = last.args.date_
       /\ events[i].start_at > last.args.start_at
       /\ events[i].start_at < events[i].end_at
       /\ HoldsItsSlots(days, events[i])

\* -------------------------------------------------------------------- C3
\* C3: add_event on a date before the current date fails with DateInPast
\* and leaves days and events as they were, whatever the times passed.
C3_PastDateIsRefused ==
  [][(last'.op = "add_event" /\ last'.args.date_ < today) =>
       /\ last'.outcome = "DateInPast"
       /\ days' = days
       /\ events' = events]_vars

\* An add_event on yesterday's date failed with DateInPast, in a calendar
\* that holds an event.
C3_Witness ==
  /\ last.op = "add_event"
  /\ last.outcome = "DateInPast"
  /\ last.args.date_ = today - 1
  /\ last.args.start_at < last.args.end_at
  /\ events # <<>>

\* -------------------------------------------------------------------- C4
\* C4: update_event of a registered event to a date and range start < end
\* whose slots are all held by one other event id raises SlotNotAvailable.
C4_OccupiedTargetIsRefused ==
  [][(/\ last'.op = "update_event"
      /\ HasEvent(events, last'.args.event_id)
      /\ Covered(last'.args.start_at, last'.args.end_at) # {}
      /\ \E other \in EventIds \ {last'.args.event_id} :
           \A t \in Covered(last'.args.start_at, last'.args.end_at) :
             SlotOn(days, last'.args.date_, t) = other) =>
       last'.outcome = "SlotNotAvailable"]_vars

\* -------------------------------------------------------------------- C5
\* C5: find_available_slots returns, in ascending order, exactly the slot
\* times of the date that hold no event id: the 96 quarter hours of the day
\* when the date has no Day.
C5_AvailableSlotsAreTheFreeOnes ==
  last.op = "find_available_slots" =>
    /\ last.outcome = "ok"
    /\ Ascending(last.ret)
    /\ Elements(last.ret) =
         {t \in QuarterHours : SlotOn(days, last.args.date_, t) = None}
    /\ ~HasDay(days, last.args.date_) => Len(last.ret) = 96

\* find_available_slots answered for a Day of which two events hold slots.
C5_Witness ==
  /\ last.op = "find_available_slots"
  /\ HasDay(days, last.args.date_)
  /\ Cardinality({SlotOn(days, last.args.date_, t) : t \in QuarterHours}) = 3
  /\ Len(last.ret) = 94

\* -------------------------------------------------------------------- C6
\* C6: find_available_slots changes neither days nor events; it creates no
\* Day for a date that has none.
C6_FindAvailableSlotsReadsOnly ==
  [][last'.op = "find_available_slots" => (days' = days /\ events' = events)]_vars

\* find_available_slots answered for a date that has no Day, in a calendar
\* that has another Day.
C6_Witness ==
  /\ last.op = "find_available_slots"
  /\ ~HasDay(days, last.args.date_)
  /\ Len(last.ret) = 96
  /\ days # <<>>

\* -------------------------------------------------------------------- C7
\* C7: after a successful add_event on a date and the delete_event of the
\* returned id right after it, find_available_slots of that date and events
\* are what they were before the add_event.
C7_AddThenDeleteRestores ==
  trip.phase = "deleted" =>
    /\ CalFindAvailableSlots(days, events, trip.date_).ret =
         CalFindAvailableSlots(trip.days, trip.events, trip.date_).ret
    /\ events = trip.events

\* An event added over one slot, on a Day where another event held a slot,
\* was deleted by the next call.
C7_Witness ==
  /\ trip.phase = "deleted"
  /\ last.op = "delete_event"
  /\ last.outcome = "ok"
  /\ Cardinality(Covered(trip.start_at, trip.end_at)) = 1
  /\ \E t \in QuarterHours : SlotOn(trip.days, trip.date_, t) # None

\* -------------------------------------------------------------------- C8
\* C8: after delete_event returned for a registered id, the id is no key of
\* events and no slot of any Day maps to it.
C8_DeletedEventHoldsNothing ==
  [][(last'.op = "delete_event" /\ last'.outcome = "ok") =>
       /\ HasEvent(events, last'.args.event_id)
       /\ ~HasEvent(events', last'.args.event_id)
       /\ \A d \in Dates, t \in QuarterHours :
            SlotOn(days', d, t) # last'.args.event_id]_vars

\* delete_event returned in a calendar of two Days whose first Day, in
\* insertion order, holds a slot of another event.
C8_Witness ==
  /\ last.op = "delete_event"
  /\ last.outcome = "ok"
  /\ Len(days) = 2
  /\ days[1].slots # days[2].slots
  /\ \E t \in QuarterHours : SlotValue(days[1].slots, t) # None

\* -------------------------------------------------------------------- C9
\* C9: update_event with an event id that is no key of events fails with
\* EventNotFound and leaves events and days as they were.
C9_UnknownIdIsEventNotFound ==
  [][(last'.op = "update_event" /\ ~HasEvent(events, last'.args.event_id)) =>
       /\ last'.outcome = "EventNotFound"
       /\ events' = events
       /\ days' = days]_vars

\* ------------------------------------------------------------------- C10
\* C10: delete_event, add_reminder, delete_reminder and list_reminders with
\* an event id that is no key of events fail with EventNotFound and leave
\* events, the reminders of every event included, and days as they were.
C10_UnknownIdIsRefused ==
  [][(/\ last'.op \in {"delete_event", "add_reminder", "delete_reminder",
                       "list_reminders"}
      /\ ~HasEvent(events, last'.args.event_id)) =>
       /\ last'.outcome = "EventNotFound"
       /\ events' = events
       /\ days' = days]_vars

\* delete_reminder failed with EventNotFound for an index that another
\* event's reminders have, in a calendar whose event holds a slot.
C10_Witness ==
  /\ last.op = "delete_reminder"
  /\ last.outcome = "EventNotFound"
  /\ last.args.reminder_index = 0
  /\ \E i \in DOMAIN events :
       /\ events[i].reminders # <<>>
       /\ HoldsItsSlots(days, events[i])

\* ------------------------------------------------------------------- C11
\* C11: for a registered event, add_reminder(id, t, k) makes the reminders of
\* the event the sequence they were with (t, k) appended, and delete_reminder
\* (id, i) with 0 <= i < length makes them the sequence they were without
\* the element at position i, the others in their order.
C11_RemindersAreASequence ==
  [][(/\ last'.op \in {"add_reminder", "delete_reminder"}
      /\ HasEvent(events, last'.args.event_id)
      /\ last'.op = "delete_reminder" =>
           (0 <= last'.args.reminder_index
              /\ last'.args.reminder_index < Len(EventOf(events, last'.args.event_id).reminders))) =>
       LET a == last'.args
           old == EventOf(events, a.event_id).reminders
           new == CalListReminders(days', events', a.event_id).ret
       IN /\ last'.outcome = "ok"
          /\ HasEvent(events', a.event_id)
          /\ last'.op = "add_reminder" =>
               /\ Len(new) = Len(old) + 1
               /\ \A j \in 1..Len(old) : new[j] = old[j]
               /\ new[Len(new)] = [date_time |-> a.date_time, type |-> a.type]
          /\ last'.op = "delete_reminder" =>
               /\ Len(new) = Len(old) - 1
               /\ \A j \in 1..Len(new) :
                    new[j] = IF j <= a.reminder_index THEN old[j] ELSE old[j + 1]]_vars

\* delete_reminder removed the first of two reminders of an event and left
\* the system reminder that came second.
C11_Witness ==
  /\ last.op = "delete_reminder"
  /\ last.outcome = "ok"
  /\ last.args.reminder_index = 0
  /\ HasEvent(events, last.args.event_id)
  /\ EventOf(events, last.args.event_id).reminders = <<[date_time |-> 1, type |-> SYSTEM]>>

\* ------------------------------------------------------------------- C12
\* C12: delete_reminder on a registered event with an index below 0 or not
\* below the number of its reminders fails with ReminderNotFound and leaves
\* the reminders as they were.
C12_BadIndexIsRefused ==
  [][(/\ last'.op = "delete_reminder"
      /\ HasEvent(events, last'.args.event_id)
      /\ \/ last'.args.reminder_index < 0
         \/ last'.args.reminder_index >= Len(EventOf(events, last'.args.event_id).reminders)) =>
       /\ last'.outcome = "ReminderNotFound"
       /\ events' = events]_vars

\* delete_reminder with index -1 failed on an event that holds two reminders.
C12_Witness ==
  /\ last.op = "delete_reminder"
  /\ last.outcome = "ReminderNotFound"
  /\ last.args.reminder_index = 0 - 1
  /\ HasEvent(events, last.args.event_id)
  /\ Len(EventOf(events, last.args.event_id).reminders) = 2

\* ------------------------------------------------------------------- C13
\* C13: find_events(start, end) returns a mapping whose keys are exactly the
\* dates d with start <= d <= end that are the date of a registered event,
\* each key once, and whose value for d is the registered events of date d,
\* each once, in the order of the registry; the call changes neither the
\* registry nor any Day.
C13_FindEventsGroupsByDate ==
  [][last'.op = "find_events" =>
       LET a == last'.args
           found == last'.ret
       IN /\ last'.outcome = "ok"
          /\ days' = days
          /\ events' = events
          /\ {found[k].date_ : k \in DOMAIN found} =
               {d \in Dates : /\ a.start_at <= d
                              /\ d <= a.end_at
                              /\ \E i \in DOMAIN events : events[i].date_ = d}
          /\ \A j, k \in DOMAIN found : found[j].date_ = found[k].date_ => j = k
          /\ \A k \in DOMAIN found :
               LET OnDate(ev) == ev.date_ = found[k].date_
               IN found[k].events = SelectSeq(events, OnDate)]_vars

\* find_events returned two dates, and under one of them two events of which
\* the one registered later by the registry's order has the smaller id.
C13_Witness ==
  /\ last.op = "find_events"
  /\ last.args.start_at < last.args.end_at
  /\ \E k \in DOMAIN last.ret :
       /\ Len(last.ret[k].events) = 2
       /\ last.ret[k].events[1].id > last.ret[k].events[2].id

\* ------------------------------------------------------------------- C14
\* C14: between calendar operations, whatever calls came before and however
\* they ended, every event id that is the value of a slot of a Day is a key
\* of the registry.
C14_SlotIdsAreRegistered ==
  \A i \in DOMAIN days :
    \A t \in DOMAIN days[i].slots :
      days[i].slots[t] # None => HasEvent(events, days[i].slots[t])

\* ------------------------------------------------------------------- C15
\* C15: whenever update_event(id, title, description, date, start, end)
\* returns without error, the registry holds an event under id with the new
\* date, start and end, the slots that map to id are exactly the slots t of
\* the Day of the date with start <= t < end, and no slot of another Day maps
\* to id.
C15_UpdateEventRebooks ==
  [][(last'.op = "update_event" /\ last'.outcome = "ok") =>
       LET a == last'.args
       IN /\ HasEvent(events', a.event_id)
          /\ EventOf(events', a.event_id).date_ = a.date_
          /\ EventOf(events', a.event_id).start_at = a.start_at
          /\ EventOf(events', a.event_id).end_at = a.end_at
          /\ \A i \in DOMAIN days' :
               HeldBy(days'[i].slots, a.event_id) =
                 IF days'[i].date_ = a.date_
                 THEN Covered(a.start_at, a.end_at)
                 ELSE {}
          /\ Covered(a.start_at, a.end_at) # {} => HasDay(days', a.date_)]_vars

\* ------------------------------------------------------------------- C18
\* C18: in every state an event id is the value of slots of at most one Day,
\* and for a registered event that Day is the Day of the event's date.
C18_OneDayPerEvent ==
  \A id \in EventIds :
    /\ \A i, j \in DOMAIN days :
         (DayHolds(days[i], id) /\ DayHolds(days[j], id)) => i = j
    /\ HasEvent(events, id) =>
         \A i \in DOMAIN days :
           DayHolds(days[i], id) => days[i].date_ = EventOf(events, id).date_

\* update_event moved an event to another date: the event was registered
\* anew behind an event with a larger id, holds slots on the Day of its new
\* date, and the calendar has a second Day.
C18_Witness ==
  /\ last.op = "update_event"
  /\ last.outcome = "ok"
  /\ Len(events) = 2
  /\ events[2].id = last.args.event_id
  /\ events[1].id > events[2].id
  /\ Len(days) > 1
  /\ \E i \in DOMAIN days :
       days[i].date_ = last.args.date_ /\ DayHolds(days[i], last.args.event_id)

\* ------------------------------------------------------------------- C19
\* C19: an add_event, update_event or delete_event call about the event id X
\* (for add_event the id it generates), whether it succeeds or fails, leaves
\* every slot that maps to another id Y mapping to Y, and leaves the
\* registry entry of Y as it was.
C19_OtherEventsAreUntouched ==
  [][last'.op \in {"add_event", "update_event", "delete_event"} =>
       LET X == IF last'.op = "add_event" THEN nextId ELSE last'.args.event_id
       IN \A Y \in EventIds \ {X} :
            /\ \A i \in DOMAIN days :
                 /\ i \in DOMAIN days'
                 /\ days'[i].date_ = days[i].date_
                 /\ \A t \in HeldBy(days[i].slots, Y) :
                      SlotValue(days'[i].slots, t) = Y
            /\ HasEvent(events, Y) =>
                 /\ HasEvent(events', Y)
                 /\ EventOf(events', Y) = EventOf(events, Y)]_vars

\* update_event asked for a range of which another event holds a slot, and
\* was refused.
C19_Witness ==
  /\ last.op = "update_event"
  /\ last.outcome = "SlotNotAvailable"
  /\ \E Y \in EventIds \ {last.args.event_id} :
       /\ HasEvent(events, Y)
       /\ \E t \in Covered(last.args.start_at, last.args.end_at) :
            SlotOn(days, last.args.date_, t) = Y

\* ------------------------------------------------------------------- C16
\* C16: when Day.update_event(event_id, start, end) fails with
\* SlotNotAvailable, no slot of the Day maps to event_id afterwards, neither
\* a slot it held before nor a slot of the new range.
C16_FailedUpdateUnschedules ==
  (last.op = "Day.update_event" /\ last.outcome = "SlotNotAvailable") =>
    HeldBy(days[1].slots, last.args.event_id) = {}

\* ------------------------------------------------------------------- C17
\* C17: when a slot of [start, end) is booked and c is the earliest such
\* slot, Day.add_event(event_id, start, end) fails with SlotNotAvailable,
\* every slot t with start <= t < c maps to event_id afterwards, and c and
\* every slot after c keep their values.
C17_AddEventBooksUpToTheConflict ==
  [][last'.op = "Day.add_event" =>
       LET a == last'.args
           taken == {t \in Covered(a.start_at, a.end_at) :
                       SlotValue(days[1].slots, t) # None}
       IN taken # {} =>
            /\ last'.outcome = "SlotNotAvailable"
            /\ \A t \in QuarterHours :
                 /\ (a.start_at <= t /\ t < SetMin(taken)) =>
                      SlotValue(days'[1].slots, t) = a.event_id
                 /\ t >= SetMin(taken) =>
                      SlotValue(days'[1].slots, t) = SlotValue(days[1].slots, t)]_vars

\* Day.add_event over 09:00-09:30 failed at 09:15, which another id holds,
\* after booking 09:00.
C17_Witness ==
  /\ last.op = "Day.add_event"
  /\ last.outcome = "SlotNotAvailable"
  /\ last.args.start_at = 9 * MinutesPerHour
  /\ last.args.end_at = 9 * MinutesPerHour + 2 * SlotMinutes
  /\ SlotValue(days[1].slots, 9 * MinutesPerHour) = last.args.event_id
  /\ SlotValue(days[1].slots, 9 * MinutesPerHour + SlotMinutes) \notin {None, last.args.event_id}

\* ------------------------------------------------------------------- C20
\* C20: a successful update_event on a registered event, to the same date or
\* to another, leaves the reminders of the event as they were: list_reminders
\* of the id returns after the call what it returned before.
C20_UpdateEventKeepsReminders ==
  [][(/\ last'.op = "update_event"
      /\ last'.outcome = "ok"
      /\ HasEvent(events, last'.args.event_id)) =>
       CalListReminders(days', events', last'.args.event_id).ret =
         CalListReminders(days, events, last'.args.event_id).ret]_vars

====
